---- MODULE Spec2Model ----
(***************************************************************************)
(* SUNTANS boundary tools (src/SUNTANS/sunboundary.py).                    *)
(*                                                                         *)
(* Four workflows are modelled, each with its own specification:           *)
(*   Spec      modifyBCmarker: reclassification of the edge markers        *)
(*   SpecLoad  Boundary.loadBoundary: type-2 / type-3 index extraction     *)
(*   SpecTime  Boundary.getTime: construction of the time axis             *)
(*   SpecWrite Boundary.initArrays, the data assignment, Boundary.write2NC *)
(***************************************************************************)
EXTENDS Integers, Sequences, FiniteSets

VARIABLES
    \* ---- modifyBCmarker -------------------------------------------------
    pc,          \* position in modifyBCmarker
    mark0,       \* grd.mark as loaded from the grid folder (entry value)
    mark,        \* grd.mark
    XY,          \* polygons returned by readShpPoly
    newmarker,   \* their marker values
    i,           \* number of polygons processed by the for loop
    ind0,        \* the candidate mask of the current pass of the loop
    edgesDat,    \* the markers stored in <suntanspath>/edges.dat
    edgesSaved,  \* grd.saveEdges has been called
    figSaved,    \* plt.savefig has been called
    errorShown,  \* the "could not find any polygons" message was printed
    \* ---- Boundary.loadBoundary ------------------------------------------
    pcL,         \* position in loadBoundary
    bmark,       \* self.grd.mark
    grad,        \* self.grd.grad
    edgep,       \* self.edgep
    cellp,       \* self.cellp
    N2,          \* self.N2
    N3,          \* self.N3
    \* ---- Boundary.getTime -----------------------------------------------
    pcT,         \* position in getTime
    timeinfo,    \* self.timeinfo: (starttime, endtime, dt)
    t1,          \* the parsed start
    t2,          \* the parsed end
    t0,          \* the running instant of the while loop
    time,        \* self.time
    Nt,          \* self.Nt
    \* ---- Boundary.initArrays, Boundary.write2NC -------------------------
    pcW,         \* position in the array workflow
    Nk,          \* self.Nk
    arrays,      \* the boundary condition arrays, by attribute name
    nc           \* the netCDF file: its dimensions and variables

markVars == <<pc, mark0, mark, XY, newmarker, i, ind0, edgesDat, edgesSaved,
              figSaved, errorShown>>

loadVars == <<pcL, bmark, grad, edgep, cellp, N2, N3>>

timeVars == <<pcT, timeinfo, t1, t2, t0, time, Nt>>

writeVars == <<pcW, Nk, arrays, nc>>

vars == <<markVars, loadVars, timeVars, writeVars>>

(***************************************************************************)
(* modifyBCmarker                                                          *)
(***************************************************************************)

\* Largest number of polygons the shapefile holds.
MaxPolys == 2

\* The edges of the grid handed to modifyBCmarker.
Edges == {"A", "B", "C"}

\* Marker values found in edges.dat.
MarkValues == {-1, 0, 2}

\* Values of the "marker" field of the shapefile.
PolyMarkers == {-1, 0, 5, 7}

\* A polygon is represented by the set of edges whose midpoint (xe, ye)
\* nxutils.points_inside_poly reports inside it.
Polygons == SUBSET Edges

\* Mutant: the emptiness test never fires.
NoPolygons_never(xy) == Len(xy) < 0

\* len(XY)<1
NoPolygons(xy) == Len(xy) < 1

\* Mutant: every edge with a nonzero marker is a candidate.
Candidates_nonzero(m) == {e \in Edges : m[e] # 0}

\* Mutant: interior edges are candidates too.
Candidates_all(m) == {e \in Edges : m[e] >= 0}

\* Mutant: the mask is computed once, from the markers on entry.
Candidates_entry(m) == {e \in Edges : mark0[e] > 0}

\* ind0 = grd.mark>0
Candidates(m) == {e \in Edges : m[e] > 0}

\* ind1 = nxutils.points_inside_poly(edges.T,xpoly), as edges of the grid
InsidePoly(cand, xpoly) == cand \cap xpoly

\* mark = grd.mark[ind0]; mark[ind1]=bctype; grd.mark[ind0]=mark
AssignMarkers(m, cand, in, bctype) ==
    [e \in Edges |-> IF e \in cand /\ e \in in THEN bctype ELSE m[e]]

MarkIdle ==
    /\ pc = "idle"
    /\ mark0 = [e \in Edges |-> 0]
    /\ mark = mark0
    /\ XY = <<>>
    /\ newmarker = <<>>
    /\ i = 0
    /\ ind0 = {}
    /\ edgesDat = mark0
    /\ edgesSaved = FALSE
    /\ figSaved = FALSE
    /\ errorShown = FALSE

InitMark ==
    /\ pc = "readShp"
    /\ mark0 \in [Edges -> MarkValues]
    /\ mark = mark0
    /\ XY = <<>>
    /\ newmarker = <<>>
    /\ i = 0
    /\ ind0 = {}
    /\ edgesDat = mark0
    /\ edgesSaved = FALSE
    /\ figSaved = FALSE
    /\ errorShown = FALSE

\* XY,newmarker = readShpPoly(bcfile,FIELDNAME='marker') and the len(XY)<1 test
ReadShp ==
    /\ pc = "readShp"
    /\ \E n \in 0..MaxPolys :
         /\ XY' \in [1..n -> Polygons]
         /\ newmarker' \in [1..n -> PolyMarkers]
    /\ IF NoPolygons(XY')
         THEN /\ errorShown' = TRUE
              /\ pc' = "returned"
         ELSE /\ errorShown' = errorShown
              /\ pc' = "loop"
    /\ UNCHANGED <<loadVars, timeVars, writeVars>>
    /\ UNCHANGED <<mark0, mark, i, ind0, edgesDat, edgesSaved, figSaved>>

\* One pass of: for xpoly, bctype in zip(XY,newmarker)
PolyIter ==
    /\ pc = "loop"
    /\ i < Len(XY)
    /\ LET xpoly == XY[i + 1]
           bctype == newmarker[i + 1]
           cand == Candidates(mark)
           ind1 == InsidePoly(cand, xpoly)
       IN  /\ ind0' = cand
           /\ mark' = AssignMarkers(mark, cand, ind1, bctype)
    /\ i' = i + 1
    /\ UNCHANGED <<loadVars, timeVars, writeVars>>
    /\ UNCHANGED <<pc, mark0, XY, newmarker, edgesDat, edgesSaved, figSaved,
                   errorShown>>

\* grd.saveEdges(edgefile), once the loop is exhausted
SaveEdges ==
    /\ pc = "loop"
    /\ i = Len(XY)
    /\ edgesDat' = mark
    /\ edgesSaved' = TRUE
    /\ pc' = "plot"
    /\ UNCHANGED <<loadVars, timeVars, writeVars>>
    /\ UNCHANGED <<mark0, mark, XY, newmarker, i, ind0, figSaved, errorShown>>

\* plt.figure(); grd.plotBC(); plt.plot(...); plt.savefig(figfile)
SavePlot ==
    /\ pc = "plot"
    /\ figSaved' = TRUE
    /\ pc' = "done"
    /\ UNCHANGED <<loadVars, timeVars, writeVars>>
    /\ UNCHANGED <<mark0, mark, XY, newmarker, i, ind0, edgesDat, edgesSaved,
                   errorShown>>

(***************************************************************************)
(* Claims about modifyBCmarker                                             *)
(***************************************************************************)

\* The for loop is exhausted.
LoopDone == pc \in {"plot", "done"}

\* The polygons, by position in the sequence, that contain edge e.
Containing(e) == {k \in 1..Len(XY) : e \in XY[k]}

LastOf(S) == CHOOSE k \in S : \A j \in S : j <= k

FirstOf(S) == CHOOSE k \in S : \A j \in S : k <= j

\* The containing polygons whose marker value is not positive.
Dropping(e) == {k \in Containing(e) : newmarker[k] <= 0}

\* C1 as stated: once the loop is exhausted, every edge whose marker was
\* nonzero on entry and that lies in at least one polygon carries the marker
\* of the last polygon containing it.
C1_LastPolygonWins_Original ==
    LoopDone =>
        \A e \in Edges :
            (mark0[e] # 0 /\ Containing(e) # {}) =>
                mark[e] = newmarker[LastOf(Containing(e))]

\* C1 amended: once the loop is exhausted, every edge whose marker was
\* positive on entry and that lies in at least one polygon carries the marker
\* of the first containing polygon whose value is not positive, if there is
\* one, and otherwise of the last polygon containing it; an edge whose marker
\* was not positive on entry keeps it.  The markers saved are these markers.
C1_LastPolygonWins ==
    LoopDone =>
        /\ \A e \in Edges :
              /\ (mark0[e] > 0 /\ Containing(e) # {}) =>
                    mark[e] = IF Dropping(e) # {}
                                THEN newmarker[FirstOf(Dropping(e))]
                                ELSE newmarker[LastOf(Containing(e))]
              /\ (mark0[e] > 0 /\ Containing(e) = {}) => mark[e] = mark0[e]
              /\ mark0[e] <= 0 => mark[e] = mark0[e]
        /\ edgesDat = mark

\* C1 witness: P1=5 over {A,B} then P2=7 over {B,C}, every edge marked on
\* entry, gives A=5, B=7, C=7 in edges.dat.
C1_Witness ==
    /\ pc = "done"
    /\ \A e \in Edges : mark0[e] > 0
    /\ XY = <<{"A", "B"}, {"B", "C"}>>
    /\ newmarker = <<5, 7>>
    /\ edgesDat = [e \in Edges |-> IF e = "A" THEN 5 ELSE 7]

\* C2: an edge whose marker is 0 on entry has marker 0 after every pass of
\* the loop and in the markers saved to edges.dat.
C2_InteriorStaysInterior ==
    \A e \in Edges : mark0[e] = 0 => (mark[e] = 0 /\ edgesDat[e] = 0)

\* C2 witness: the markers were saved and an interior edge lies in a polygon
\* whose marker value is not 0.
C2_Witness ==
    /\ edgesSaved
    /\ \E e \in Edges :
          /\ mark0[e] = 0
          /\ \E k \in Containing(e) : newmarker[k] # 0

\* C3: when readShpPoly returns no polygon, modifyBCmarker prints the error
\* and returns; the markers are those on entry and neither edges.dat nor the
\* plot is ever saved.
C3_NoPolygonsAborts ==
    (pc # "readShp" /\ Len(XY) = 0) =>
        /\ pc = "returned"
        /\ errorShown
        /\ mark = mark0
        /\ edgesDat = mark0
        /\ ~edgesSaved
        /\ ~figSaved

\* C3 witness: modifyBCmarker has returned on an empty polygon sequence, for
\* a grid that has marked edges.
C3_Witness ==
    /\ pc = "returned"
    /\ Len(XY) = 0
    /\ \E e \in Edges : mark0[e] > 0

\* C8 as stated: every pass of the loop tests the edges whose marker was
\* nonzero on entry.
C8_FixedCandidates_Original ==
    i >= 1 => ind0 = {e \in Edges : mark0[e] # 0}

\* C8 amended: each pass of the loop tests the edges whose marker is positive
\* when that pass starts.  The candidates are always among the edges whose
\* marker was positive on entry; an edge leaves them for good once a polygon
\* has given it a value that is not positive, and an edge whose marker on
\* entry is negative is never one.
C8_CandidatesPerPass ==
    /\ [][i' = i + 1 => ind0' = {e \in Edges : mark[e] > 0}]_vars
    /\ [](ind0 \subseteq {e \in Edges : mark0[e] > 0})
    /\ [][\A e \in Edges : (i >= 1 /\ e \notin ind0 /\ i' = i + 1) => e \notin ind0']_vars

\* C8 witness: a later pass no longer tests an edge that was marked on entry,
\* because an earlier polygon gave it a value that is not positive.
C8_Witness ==
    /\ i >= 2
    /\ \E e \in Edges : mark0[e] > 0 /\ e \notin ind0 /\ mark[e] <= 0

(***************************************************************************)
(* Boundary.loadBoundary                                                   *)
(***************************************************************************)

\* Number of edges and of cells of the grid handed to Boundary.
NumEdges == 2
NumCells == 2

\* The "no neighbour" entry of grd.grad.
Sentinel == -1

\* Edge and cell indices count from 0, as numpy's do.
EdgeIdx == 0..(NumEdges - 1)
CellIdx == 0..(NumCells - 1)

\* Marker values of the grid handed to Boundary.
BMarkValues == {0, 2, 3}

\* np.argwhere(m==v): the indices holding v, ascending.
RECURSIVE ArgWhereFrom(_, _, _)
ArgWhereFrom(m, v, k) ==
    IF k >= NumEdges THEN <<>>
    ELSE (IF m[k] = v THEN <<k>> ELSE <<>>) \o ArgWhereFrom(m, v, k + 1)

ArgWhere(m, v) == ArgWhereFrom(m, v, 0)

\* Mutant: the entry tested, not the other one, is appended.
ResolveCell_same(c1, c2) ==
    IF c1 = Sentinel THEN <<c1>>
    ELSE IF c2 = Sentinel THEN <<c2>>
    ELSE <<>>

\* Mutant: an edge with two sentinel entries appends nothing.
ResolveCell_dropBoth(c1, c2) ==
    IF c1 = Sentinel /\ c2 = Sentinel THEN <<>>
    ELSE IF c1 = Sentinel THEN <<c2>>
    ELSE IF c2 = Sentinel THEN <<c1>>
    ELSE <<>>

\* The body of the loop over zip(cellp1,cellp2): what one edge appends.
ResolveCell(c1, c2) ==
    IF c1 = Sentinel THEN <<c2>>
    ELSE IF c2 = Sentinel THEN <<c1>>
    ELSE <<>>

\* for c1,c2 in zip(cellp1,cellp2), over the type-3 edges ind3[k..]
RECURSIVE ResolveCells(_, _, _)
ResolveCells(g, ind3, k) ==
    IF k > Len(ind3) THEN <<>>
    ELSE ResolveCell(g[ind3[k]][1], g[ind3[k]][2]) \o ResolveCells(g, ind3, k + 1)

LoadIdle ==
    /\ pcL = "idle"
    /\ bmark = [e \in EdgeIdx |-> 0]
    /\ grad = [e \in EdgeIdx |-> <<Sentinel, Sentinel>>]
    /\ edgep = <<>>
    /\ cellp = <<>>
    /\ N2 = 0
    /\ N3 = 0

InitLoad ==
    /\ pcL = "loadBoundary"
    /\ bmark \in [EdgeIdx -> BMarkValues]
    /\ grad \in [EdgeIdx -> (CellIdx \cup {Sentinel}) \X (CellIdx \cup {Sentinel})]
    /\ edgep = <<>>
    /\ cellp = <<>>
    /\ N2 = 0
    /\ N3 = 0

\* Boundary.loadBoundary: the indices of the type-2 edges and type-3 cells.
\* (The coordinates and the depth arrays it also copies are not modelled.)
LoadBoundary ==
    /\ pcL = "loadBoundary"
    /\ LET ind2 == ArgWhere(bmark, 2)
           ind3 == ArgWhere(bmark, 3)
           cells == ResolveCells(grad, ind3, 1)
       IN  /\ edgep' = ind2
           /\ N2' = Len(ind2)
           /\ cellp' = cells
           /\ N3' = Len(cells)
    /\ pcL' = "loaded"
    /\ UNCHANGED <<markVars, timeVars, writeVars>>
    /\ UNCHANGED <<bmark, grad>>

NextLoad == LoadBoundary

(***************************************************************************)
(* Claims about loadBoundary                                               *)
(***************************************************************************)

Type3Edges == {e \in EdgeIdx : bmark[e] = 3}

\* The number of sentinel entries of an edge's adjacency pair.
Sentinels(e) ==
    (IF grad[e][1] = Sentinel THEN 1 ELSE 0) + (IF grad[e][2] = Sentinel THEN 1 ELSE 0)

\* The k-th edge of S in ascending order.
NthOf(S, k) == CHOOSE e \in S : Cardinality({f \in S : f < e}) = k - 1

\* The entry of an edge's adjacency pair that is not the sentinel.
ValidCell(e) == IF grad[e][1] = Sentinel THEN grad[e][2] ELSE grad[e][1]

\* C4: when every marker==3 edge has exactly one sentinel entry, cellp holds
\* one entry per marker==3 edge, in ascending edge order, each the entry of
\* the edge's pair that is not the sentinel; N3 is the number of such edges.
C4_OneCellPerType3Edge ==
    (pcL = "loaded" /\ \A e \in Type3Edges : Sentinels(e) = 1) =>
        /\ N3 = Cardinality(Type3Edges)
        /\ Len(cellp) = N3
        /\ \A k \in 1..N3 :
              /\ cellp[k] = ValidCell(NthOf(Type3Edges, k))
              /\ cellp[k] # Sentinel

\* C4 witness: a loaded grid with at least two marker==3 edges, each with one
\* sentinel entry, the sentinel in the first place for one and in the second
\* for another, resolved to different cells.
C4_Witness ==
    /\ pcL = "loaded"
    /\ \A e \in Type3Edges : Sentinels(e) = 1
    /\ \E e, f \in Type3Edges :
          /\ grad[e][1] = Sentinel
          /\ grad[f][2] = Sentinel
          /\ ValidCell(e) # ValidCell(f)
    /\ N3 >= 2

\* C5: a marker==3 edge with two non-sentinel adjacent cells makes the
\* construction fail with a TopologyInconsistency error.
C5_TwoCellsRaises ==
    (pcL # "loadBoundary" /\ \E e \in Type3Edges : Sentinels(e) = 0) =>
        pcL = "TopologyInconsistency"

\* C9 as stated: a marker==3 edge with both entries the sentinel, like one
\* with neither, contributes nothing: cellp never holds the sentinel and N3
\* counts only the edges with exactly one sentinel entry.
C9_BothSentinelDropped_Original ==
    pcL = "loaded" =>
        /\ \A k \in 1..Len(cellp) : cellp[k] # Sentinel
        /\ N3 = Cardinality({e \in Type3Edges : Sentinels(e) = 1})

\* C9 amended: a marker==3 edge with neither entry the sentinel contributes
\* nothing, but one with both entries the sentinel contributes the sentinel
\* itself: N3 counts the marker==3 edges with at least one sentinel entry,
\* and cellp holds the sentinel once for every edge with two.
C9_BothSentinelAppended ==
    pcL = "loaded" =>
        /\ N3 = Cardinality({e \in Type3Edges : Sentinels(e) >= 1})
        /\ Len(cellp) = N3
        /\ Cardinality({k \in 1..Len(cellp) : cellp[k] = Sentinel})
             = Cardinality({e \in Type3Edges : Sentinels(e) = 2})
        /\ \A k \in 1..N3 :
              cellp[k] = ValidCell(NthOf({e \in Type3Edges : Sentinels(e) >= 1}, k))

\* C9 witness: a loaded grid with a marker==3 edge of each malformed kind.
C9_Witness ==
    /\ pcL = "loaded"
    /\ \E e \in Type3Edges : Sentinels(e) = 2
    /\ \E e \in Type3Edges : Sentinels(e) = 0
    /\ \E k \in 1..Len(cellp) : cellp[k] = Sentinel

(***************************************************************************)
(* Boundary.getTime                                                        *)
(*                                                                         *)
(* A datetime is <<ordinal day, second of the day, microsecond>>, a        *)
(* timedelta <<days, seconds, microseconds>>, as CPython stores them.      *)
(* A 'yyyymmdd.HHMM' string is [ord, hhmm]: the proleptic ordinal of its   *)
(* date and the number its four time digits spell.  dt is [sec, tenth]:    *)
(* sec + tenth * 1e-7 seconds, 0 <= tenth < 10^7.                          *)
(***************************************************************************)

\* Largest number of instants self.time can hold (the memory of the machine).
MaxAppends == 25

SecPerDay == 86400
UsPerSec == 1000000
TenthsPerSec == 10000000

\* datetime.max.toordinal(): 9999-12-31.
MaxOrdinal == 3652059

\* (starttime, endtime) pairs handed to Boundary.  734503 is 2012-01-01.
Windows ==
    { <<[ord |-> 734503, hhmm |-> 0], [ord |-> 734504, hhmm |-> 0]>>,
      <<[ord |-> 734503, hhmm |-> 2300], [ord |-> 734504, hhmm |-> 130]>>,
      <<[ord |-> 734503, hhmm |-> 0], [ord |-> 734503, hhmm |-> 0]>>,
      <<[ord |-> 734503, hhmm |-> 100], [ord |-> 734503, hhmm |-> 0]>>,
      <<[ord |-> 3652059, hhmm |-> 0], [ord |-> 3652059, hhmm |-> 2359]>>,
      <<[ord |-> 734503, hhmm |-> 0], [ord |-> 734503, hhmm |-> 2460]>>,
      <<[ord |-> 734503, hhmm |-> 1275], [ord |-> 734504, hhmm |-> 0]>> }

\* Steps tried on those windows: 1e-7 s, 1 h, 1 h + 0.4 us, 1.5 h,
\* 3599.9999996 s, 1 day, 1 day 1 h.
Steps ==
    { [sec |-> 0, tenth |-> 1], [sec |-> 3600, tenth |-> 0],
      [sec |-> 3600, tenth |-> 4], [sec |-> 5400, tenth |-> 0],
      [sec |-> 3599, tenth |-> 9999996], [sec |-> 86400, tenth |-> 0],
      [sec |-> 90000, tenth |-> 0] }

\* One-minute windows and the steps tried on them: 1e-7 s, 7.3 s,
\* 4.2857143 s, 7.5 s, 59.9999999 s.
ShortWindows ==
    { <<[ord |-> 734503, hhmm |-> 2359], [ord |-> 734504, hhmm |-> 0]>>,
      <<[ord |-> 734503, hhmm |-> 1200], [ord |-> 734503, hhmm |-> 1201]>> }

ShortSteps ==
    { [sec |-> 0, tenth |-> 1], [sec |-> 7, tenth |-> 3000000],
      [sec |-> 4, tenth |-> 2857143], [sec |-> 7, tenth |-> 5000000],
      [sec |-> 59, tenth |-> 9999999] }

TimeInfos ==
    {<<w[1], w[2], dt>> : w \in Windows, dt \in Steps}
        \cup {<<w[1], w[2], dt>> : w \in ShortWindows, dt \in ShortSteps}

\* Whether strptime(s,'%Y%m%d.%H%M') accepts the time digits.
Parseable(s) == (s.hhmm \div 100) <= 23 /\ (s.hhmm % 100) <= 59

\* datetime.strptime(s,'%Y%m%d.%H%M')
StrpTime(s) == <<s.ord, (s.hhmm \div 100) * 3600 + (s.hhmm % 100) * 60, 0>>

\* Mutant: the fraction of a microsecond is cut off, not rounded.
TimeDelta_truncate(dt) ==
    LET us == dt.tenth \div 10
        secs == dt.sec + (us \div UsPerSec)
    IN  <<secs \div SecPerDay, secs % SecPerDay, us % UsPerSec>>

\* timedelta(seconds=dt): rounded to the microsecond, then normalised.
TimeDelta(dt) ==
    LET us == (dt.tenth + 5) \div 10
        secs == dt.sec + (us \div UsPerSec)
    IN  <<secs \div SecPerDay, secs % SecPerDay, us % UsPerSec>>

\* datetime + timedelta, before the range check.
AddDelta(t, d) ==
    LET us == t[3] + d[3]
        secs == t[2] + d[2] + (us \div UsPerSec)
    IN  <<t[1] + d[1] + (secs \div SecPerDay), secs % SecPerDay, us % UsPerSec>>

\* Mutant: the loop runs while t0 <= t2.
Before_orEqual(a, b) ==
    \/ a[1] < b[1]
    \/ a[1] = b[1] /\ a[2] < b[2]
    \/ a[1] = b[1] /\ a[2] = b[2] /\ a[3] <= b[3]

\* a < b on datetimes
Before(a, b) ==
    \/ a[1] < b[1]
    \/ a[1] = b[1] /\ a[2] < b[2]
    \/ a[1] = b[1] /\ a[2] = b[2] /\ a[3] < b[3]

NoTime == <<0, 0, 0>>

TimeIdle ==
    /\ pcT = "idle"
    /\ timeinfo = <<[ord |-> 0, hhmm |-> 0], [ord |-> 0, hhmm |-> 0],
                    [sec |-> 0, tenth |-> 0]>>
    /\ t1 = NoTime
    /\ t2 = NoTime
    /\ t0 = NoTime
    /\ time = <<>>
    /\ Nt = 0

InitTime ==
    /\ pcT = "getTime"
    /\ timeinfo \in TimeInfos
    /\ t1 = NoTime
    /\ t2 = NoTime
    /\ t0 = NoTime
    /\ time = <<>>
    /\ Nt = 0

\* t1 = strptime(timeinfo[0]); t2 = strptime(timeinfo[1]); self.time = []; t0=t1
ParseTimes ==
    /\ pcT = "getTime"
    /\ Parseable(timeinfo[1]) /\ Parseable(timeinfo[2])
    /\ t1' = StrpTime(timeinfo[1])
    /\ t2' = StrpTime(timeinfo[2])
    /\ t0' = StrpTime(timeinfo[1])
    /\ time' = <<>>
    /\ pcT' = "loop"
    /\ UNCHANGED <<markVars, loadVars, writeVars>>
    /\ UNCHANGED <<timeinfo, Nt>>

\* strptime raises ValueError on a string it cannot parse
ParseFails ==
    /\ pcT = "getTime"
    /\ ~(Parseable(timeinfo[1]) /\ Parseable(timeinfo[2]))
    /\ pcT' = "ValueError"
    /\ UNCHANGED <<markVars, loadVars, writeVars>>
    /\ UNCHANGED <<timeinfo, t1, t2, t0, time, Nt>>

\* One pass of: while t0 < t2: self.time.append(t0); t0 += timedelta(...)
\* The addition raises OverflowError past datetime.max.
LoopAppend ==
    /\ pcT = "loop"
    /\ Before(t0, t2)
    /\ Len(time) < MaxAppends
    /\ time' = Append(time, t0)
    /\ LET next == AddDelta(t0, TimeDelta(timeinfo[3]))
       IN  IF next[1] > MaxOrdinal
             THEN /\ pcT' = "OverflowError"
                  /\ t0' = t0
             ELSE /\ pcT' = "loop"
                  /\ t0' = next
    /\ UNCHANGED <<markVars, loadVars, writeVars>>
    /\ UNCHANGED <<timeinfo, t1, t2, Nt>>

\* The loop ends: self.Nt = len(self.time)
LoopExit ==
    /\ pcT = "loop"
    /\ ~Before(t0, t2)
    /\ Nt' = Len(time)
    /\ pcT' = "done"
    /\ UNCHANGED <<markVars, loadVars, writeVars>>
    /\ UNCHANGED <<timeinfo, t1, t2, t0, time>>

NextTime == ParseTimes \/ ParseFails \/ LoopAppend \/ LoopExit

(***************************************************************************)
(* Claims about getTime                                                    *)
(*                                                                         *)
(* Instants are compared as offsets from the parsed start: <<seconds,      *)
(* microseconds>> for what the code computes, <<seconds, tenths of a       *)
(* microsecond>> for the exact multiples of dt.                            *)
(***************************************************************************)

\* Both strings were parsed and the loop has been entered.
Started == pcT \in {"loop", "done", "OverflowError"}

Terminated == pcT \in {"done", "OverflowError"}

StepPositive == timeinfo[3].sec > 0 \/ timeinfo[3].tenth > 0

\* dt to the nearest microsecond: whole seconds and microseconds.
RoundedUs == (timeinfo[3].tenth + 5) \div 10
DeltaSec == timeinfo[3].sec + (RoundedUs \div UsPerSec)
DeltaUs == RoundedUs % UsPerSec
DeltaPositive == DeltaSec > 0 \/ DeltaUs > 0

PairLess(a, b) == a[1] < b[1] \/ (a[1] = b[1] /\ a[2] < b[2])

RelSec(t) == (t[1] - t1[1]) * SecPerDay + t[2] - t1[2]

\* An instant of the run, as an offset from start.
Offset(t) == <<RelSec(t), t[3]>>
OffsetTenths(t) == <<RelSec(t), t[3] * 10>>

\* start + k * delta and start + k * dt, as offsets from start.
Expected(k) == <<k * DeltaSec + ((k * DeltaUs) \div UsPerSec), (k * DeltaUs) % UsPerSec>>
Exact(k) ==
    <<k * timeinfo[3].sec + ((k * timeinfo[3].tenth) \div TenthsPerSec),
      (k * timeinfo[3].tenth) % TenthsPerSec>>

\* The day start + k * delta falls on.
ExpectedOrdinal(k) == t1[1] + ((t1[2] + Expected(k)[1]) \div SecPerDay)

\* C6 as stated: for parseable start and end and a positive step, getTime
\* raises nothing and yields exactly start + i*step for i = 0..Nt-1, all
\* before end, with start + Nt*step >= end; Nt = 0 when end <= start.
C6_TimeAxis_Original ==
    (Started /\ StepPositive) =>
        /\ pcT # "OverflowError"
        /\ \A k \in 1..Len(time) :
              /\ OffsetTenths(time[k]) = Exact(k - 1)
              /\ PairLess(OffsetTenths(time[k]), OffsetTenths(t2))
        /\ pcT = "done" =>
              /\ Nt = Len(time)
              /\ ~PairLess(Exact(Nt), OffsetTenths(t2))
              /\ (~Before(t1, t2) => Nt = 0)

\* C6 amended: with delta the step rounded to the microsecond and delta > 0,
\* getTime yields exactly start + i*delta for i = 0..Nt-1, strictly
\* increasing, all before end, with start + Nt*delta >= end; it raises
\* OverflowError instead when start + i*delta, i <= Nt, passes datetime.max.
\* When end <= start the axis is empty and Nt = 0, whatever the step.
C6_TimeAxis ==
    /\ (Started /\ DeltaPositive) =>
          /\ \A k \in 1..Len(time) :
                /\ Offset(time[k]) = Expected(k - 1)
                /\ PairLess(Offset(time[k]), Offset(t2))
          /\ \A k \in 1..(Len(time) - 1) : Before(time[k], time[k + 1])
          /\ pcT = "loop" => Offset(t0) = Expected(Len(time))
          /\ pcT = "done" =>
                /\ Nt = Len(time)
                /\ ~PairLess(Expected(Nt), Offset(t2))
          /\ pcT = "OverflowError" => ExpectedOrdinal(Len(time)) > MaxOrdinal
    /\ (pcT = "done" /\ ~Before(t1, t2)) => (Nt = 0 /\ time = <<>>)
    /\ (Started /\ ~Before(t1, t2)) => pcT # "OverflowError"

\* C6 witness: start=20120101.0000, end=20120102.0000, step=3600 gives
\* Nt=24, first = start, last = start+23h.
C6_Witness ==
    /\ pcT = "done"
    /\ timeinfo = <<[ord |-> 734503, hhmm |-> 0], [ord |-> 734504, hhmm |-> 0],
                    [sec |-> 3600, tenth |-> 0]>>
    /\ Nt = 24
    /\ time[1] = <<734503, 0, 0>>
    /\ time[24] = <<734503, 82800, 0>>

\* C10 as stated: for every step > 0 each pass of the loop moves the running
\* instant towards end, and there are at most ceil((end-start)/step)
\* appends, that is, start + (n-1)*step < end at the n-th.
C10_Terminates_Original ==
    /\ [][(Started /\ StepPositive /\ Len(time') = Len(time) + 1 /\ pcT' = "loop")
            => Before(t0, t0')]_vars
    /\ []((Started /\ StepPositive) =>
            \A k \in 1..Len(time) : PairLess(Exact(k - 1), OffsetTenths(t2)))

\* C10 amended: with delta the step rounded to the microsecond and delta > 0,
\* the loop ends, by leaving the while or by OverflowError, after at most
\* ceil((end-start)/delta) appends, each pass moving the running instant
\* strictly forward.
C10_Terminates ==
    /\ (Started /\ DeltaPositive) ~> Terminated
    /\ [][(Started /\ DeltaPositive /\ Len(time') = Len(time) + 1 /\ pcT' = "loop")
            => Before(t0, t0')]_vars
    /\ []((Started /\ DeltaPositive) =>
            \A k \in 1..Len(time) : PairLess(Expected(k - 1), Offset(t2)))

\* C10 witness: a one-minute window with step 4.2857143 s ends after 15
\* appends, one more than ceil(60/4.2857143) = 14.
C10_Witness ==
    /\ pcT = "done"
    /\ timeinfo[3] = [sec |-> 4, tenth |-> 2857143]
    /\ Nt = 15

(***************************************************************************)
(* Boundary.initArrays, the data assignment and Boundary.write2NC          *)
(*                                                                         *)
(* An array of shape (a, b, c) is a function on (1..a) \X (1..b) \X (1..c),*)
(* one of shape (a, c) a function on (1..a) \X (1..c).  The coordinate     *)
(* variables xv, yv, xe, ye, z and time of the file are not modelled.      *)
(***************************************************************************)

\* Largest Nt, and largest N2 and N3, of a Boundary whose arrays are written.
MaxNt == 1
MaxPts == 1

\* Values of self.Nk (grd.Nkmax).
NkValues == {1, 2}

\* Values the data assignment stores.
DataValues == {0, 1}

Type2Names == {"boundary_u", "boundary_v", "boundary_w", "boundary_T", "boundary_S"}
Type3Names == {"uc", "vc", "wc", "T", "S"}

\* np.zeros((a,b,c)) and np.zeros((a,c))
Zeros3(a, b, c) == [x \in (1..a) \X (1..b) \X (1..c) |-> 0]
Zeros2(a, c) == [x \in (1..a) \X (1..c) |-> 0]

\* The attribute whose contents write2NC stores in type-3 variable v:
\* tmpvar=nc.createVariable(v,...); tmpvar[:] = self.<attribute>
Type3Source(v) == IF v = "S" THEN "T" ELSE v

NoFile == [dims |-> <<>>, vars |-> <<>>]

WriteIdle ==
    /\ pcW = "idle"
    /\ Nk = 0
    /\ arrays = <<>>
    /\ nc = NoFile

\* Boundary.initArrays
InitArrays ==
    /\ pcW = "initArrays"
    /\ arrays' = [v \in Type2Names \cup Type3Names \cup {"h"} |->
                    IF v \in Type2Names THEN Zeros3(Nt, Nk, N2)
                    ELSE IF v \in Type3Names THEN Zeros3(Nt, Nk, N3)
                    ELSE Zeros2(Nt, N3)]
    /\ pcW' = "assign"
    /\ UNCHANGED <<markVars, loadVars, timeVars>>
    /\ UNCHANGED <<Nk, nc>>

\* The data assignment, outside this file: one entry of the type-3
\* temperature or salinity array is stored, any number of times.
AssignData ==
    /\ pcW = "assign"
    /\ \E v \in {"T", "S"} :
         \E x \in (1..Nt) \X (1..Nk) \X (1..N3) :
            \E d \in DataValues :
               arrays' = [arrays EXCEPT ![v][x] = d]
    /\ UNCHANGED <<markVars, loadVars, timeVars>>
    /\ UNCHANGED <<pcW, Nk, nc>>

\* Boundary.write2NC
Write2NC ==
    /\ pcW = "assign"
    /\ LET dimNames == {"Nt", "Nk"}
                         \cup (IF N2 > 0 THEN {"Ntype2"} ELSE {})
                         \cup (IF N3 > 0 THEN {"Ntype3"} ELSE {})
           varNames == (IF N3 > 0 THEN {"cellp"} \cup Type3Names \cup {"h"} ELSE {})
                         \cup (IF N2 > 0 THEN {"edgep"} \cup Type2Names ELSE {})
       IN  nc' = [dims |-> [d \in dimNames |->
                              CASE d = "Nt" -> Nt
                                [] d = "Nk" -> Nk
                                [] d = "Ntype2" -> N2
                                [] d = "Ntype3" -> N3],
                  vars |-> [v \in varNames |->
                              CASE v = "cellp" -> cellp
                                [] v = "edgep" -> edgep
                                [] v \in Type2Names -> arrays[v]
                                [] v \in Type3Names -> arrays[Type3Source(v)]
                                [] v = "h" -> arrays["h"]]]
    /\ pcW' = "written"
    /\ UNCHANGED <<markVars, loadVars, timeVars>>
    /\ UNCHANGED <<Nk, arrays>>

(***************************************************************************)
(* Claims about write2NC                                                   *)
(***************************************************************************)

\* C7: when N3 > 0, the variable 'S' of the file written by write2NC holds
\* the contents of the salinity array self.S.
C7_SalinityWritten ==
    (pcW = "written" /\ N3 > 0) => nc.vars["S"] = arrays["S"]

Init == InitMark /\ LoadIdle /\ TimeIdle /\ WriteIdle

Next == ReadShp \/ PolyIter \/ SaveEdges \/ SavePlot

Spec == Init /\ [][Next]_vars

InitL == MarkIdle /\ InitLoad /\ TimeIdle /\ WriteIdle

SpecLoad == InitL /\ [][NextLoad]_vars

InitT == MarkIdle /\ LoadIdle /\ InitTime /\ WriteIdle

SpecTime == InitT /\ [][NextTime]_vars

\* The interpreter keeps running the loop: a pass that can be taken is taken.
FairSpecTime == SpecTime /\ WF_vars(NextTime)

\* A Boundary as its constructor leaves it before initArrays: N2 type-2
\* edges, N3 type-3 cells, Nt instants, Nk layers.
InitW ==
    /\ MarkIdle
    /\ pcL = "loaded"
    /\ bmark = [e \in EdgeIdx |-> 0]
    /\ grad = [e \in EdgeIdx |-> <<Sentinel, Sentinel>>]
    /\ N2 \in 0..MaxPts
    /\ N3 \in 0..MaxPts
    /\ edgep = [k \in 1..N2 |-> k - 1]
    /\ cellp = [k \in 1..N3 |-> 0]
    /\ pcT = "done"
    /\ timeinfo = <<[ord |-> 0, hhmm |-> 0], [ord |-> 0, hhmm |-> 0],
                    [sec |-> 0, tenth |-> 0]>>
    /\ t1 = NoTime
    /\ t2 = NoTime
    /\ t0 = NoTime
    /\ time = <<>>
    /\ Nt \in 0..MaxNt
    /\ pcW = "initArrays"
    /\ Nk \in NkValues
    /\ arrays = <<>>
    /\ nc = NoFile

NextWrite == InitArrays \/ AssignData \/ Write2NC

SpecWrite == InitW /\ [][NextWrite]_vars

====
